---- MODULE Spec2Model ----
(***************************************************************************)
(* SwarSense: the pronunciation analysis of backend/phoneme_check.py and   *)
(* backend_simple/phoneme_check.py, the emotion and audio functions of the *)
(* backends, and the sessions of app.py, app_deploy.py and app_simple.py.  *)
(*                                                                         *)
(* A phoneme string is a Python str: here a sequence of one-character      *)
(* strings.  Scores are Python floats; they are modelled as exact          *)
(* rationals <<num, den>> in lowest terms (the comparisons against the     *)
(* thresholds 50, 70, 80, 90 and 100 agree between the two for every       *)
(* ratio M/T the model can produce).                                       *)
(*                                                                         *)
(* Spec applies one operation to arguments drawn at the start.  SpecShared *)
(* runs analyze_pronunciation and get_pronunciation_tips statement by      *)
(* statement in two threads that share the module-level                    *)
(* pronunciation_analyzer.  SpecSession follows a session of one of the    *)
(* apps, one script run per interaction; SpecLong follows a session of     *)
(* app.py with fixed inputs until its histories pass max_history_items.    *)
(***************************************************************************)
EXTENDS Integers, Sequences, FiniteSets, TLC

\* ------------------------------------------------------------------ bounds
\* longest phoneme sequence (in tokens) handed to the scoring operations
MaxLen == 2

\* ------------------------------------------------------- values and helpers
\* Python None (a one-element tuple, so that it compares with str values)
None == <<"None">>

Max(x, y) == IF x >= y THEN x ELSE y
Min(x, y) == IF x <= y THEN x ELSE y

RECURSIVE GCD(_, _)
GCD(x, y) == IF y = 0 THEN x ELSE GCD(y, x % y)

\* a float value n/d, d > 0, as the rational in lowest terms
Rat(n, d) == LET g == GCD(n, d) IN IF g = 0 THEN <<0, 1>> ELSE <<n \div g, d \div g>>

\* float * int
RatTimes(r, k) == Rat(r[1] * k, r[2])

\* float >= int
RatGE(r, k) == r[1] >= k * r[2]

\* float < int
RatLT(r, k) == r[1] < k * r[2]

\* float <= int
RatLE(r, k) == r[1] <= k * r[2]

\* ------------------------------------------------------- phoneme strings
\* ARPABET tokens of the pronunciation dictionary, as character sequences
Tokens == { <<"H", "H">>, <<"A", "H", "0">>, <<"A", "H", "1">> }

RECURSIVE SeqsUpTo(_, _)
SeqsUpTo(S, n) ==
    IF n = 0 THEN { <<>> }
    ELSE LET shorter == SeqsUpTo(S, n - 1)
         IN shorter \cup { Append(s, x) : s \in { t \in shorter : Len(t) = n - 1 }, x \in S }

\* " ".join(tokens): the format of a dictionary entry
RECURSIVE Join(_)
Join(ts) ==
    IF Len(ts) = 0 THEN <<>>
    ELSE IF Len(ts) = 1 THEN ts[1]
    ELSE ts[1] \o <<" ">> \o Join(Tail(ts))

\* str.split(): the maximal runs of non-blank characters, in order
RECURSIVE SplitFrom(_, _, _)
SplitFrom(s, i, cur) ==
    IF i > Len(s) THEN (IF cur = <<>> THEN <<>> ELSE <<cur>>)
    ELSE IF s[i] = " "
         THEN (IF cur = <<>> THEN <<>> ELSE <<cur>>) \o SplitFrom(s, i + 1, <<>>)
         ELSE SplitFrom(s, i + 1, Append(cur, s[i]))

Split(s) == SplitFrom(s, 1, <<>>)

\* the phoneme strings the scoring operations are applied to ("" included)
PhonemeStrings == { Join(ts) : ts \in SeqsUpTo(Tokens, MaxLen) }

\* ------------------------------------------------ difflib.SequenceMatcher
\* Indices are 1-based; a window [lo, hi) of Python is lo+1 .. hi here.

\* number of occurrences of x in b
Count(b, x) == Cardinality({ j \in 1..Len(b) : b[j] = x })

\* __chain_b: the elements of b kept in b2j (isjunk is None; autojunk purges
\* the elements occurring more than n // 100 + 1 times once n >= 200)
InB2J(b, x) == ~ (Len(b) >= 200 /\ Count(b, x) > (Len(b) \div 100) + 1)

\* find_longest_match, first loop: j2len after row i, at column j, i.e. the
\* length of the run of matches ending at (i, j) inside the window
RECURSIVE ChainLen(_, _, _, _, _, _)
ChainLen(a, b, i, j, alo, blo) ==
    IF i <= alo \/ j <= blo THEN 0
    ELSE IF a[i] = b[j] /\ InB2J(b, b[j])
         THEN ChainLen(a, b, i - 1, j - 1, alo, blo) + 1
         ELSE 0

\* find_longest_match, the extension loops (bjunk is empty)
RECURSIVE ExtendLeft(_, _, _, _, _)
ExtendLeft(a, b, m, alo, blo) ==
    IF m[1] > alo /\ m[2] > blo /\ a[m[1]] = b[m[2]]
    THEN ExtendLeft(a, b, <<m[1] - 1, m[2] - 1, m[3] + 1>>, alo, blo)
    ELSE m

RECURSIVE ExtendRight(_, _, _, _, _)
ExtendRight(a, b, m, ahi, bhi) ==
    IF m[1] + m[3] < ahi /\ m[2] + m[3] < bhi /\ a[m[1] + m[3] + 1] = b[m[2] + m[3] + 1]
    THEN ExtendRight(a, b, <<m[1], m[2], m[3] + 1>>, ahi, bhi)
    ELSE m

\* find_longest_match(alo, ahi, blo, bhi): <<besti, bestj, bestsize>>, 0-based
\* start offsets; the first longest run in scan order (rows of a, then
\* columns of b) wins
find_longest_match(a, b, alo, ahi, blo, bhi) ==
    LET ends == (alo + 1 .. ahi) \X (blo + 1 .. bhi)
        k(e) == ChainLen(a, b, e[1], e[2], alo, blo)
        sizes == { k(e) : e \in ends }
        bestsize == IF sizes = {} THEN 0 ELSE CHOOSE s \in sizes : \A t \in sizes : t <= s
        best == IF bestsize = 0 THEN <<alo, blo, 0>>
                ELSE LET cands == { e \in ends : k(e) = bestsize }
                         e0 == CHOOSE e \in cands :
                                 \A f \in cands : e[1] < f[1] \/ (e[1] = f[1] /\ e[2] <= f[2])
                     IN <<e0[1] - bestsize, e0[2] - bestsize, bestsize>>
    IN ExtendRight(a, b, ExtendLeft(a, b, best, alo, blo), ahi, bhi)

\* get_matching_blocks before the merge of adjacent blocks: the recursion on
\* the pieces left and right of the longest match, in sorted order
RECURSIVE MatchingBlocksAround(_, _, _, _, _, _, _)
MatchingBlocksIn(a, b, alo, ahi, blo, bhi) ==
    MatchingBlocksAround(a, b, alo, ahi, blo, bhi, find_longest_match(a, b, alo, ahi, blo, bhi))

\* x is the longest match <<i, j, k>> of the window
MatchingBlocksAround(a, b, alo, ahi, blo, bhi, x) ==
    IF x[3] = 0 THEN <<>>
    ELSE (IF alo < x[1] /\ blo < x[2] THEN MatchingBlocksIn(a, b, alo, x[1], blo, x[2]) ELSE <<>>)
         \o <<x>>
         \o (IF x[1] + x[3] < ahi /\ x[2] + x[3] < bhi
             THEN MatchingBlocksIn(a, b, x[1] + x[3], ahi, x[2] + x[3], bhi) ELSE <<>>)

RECURSIVE SumSizes(_)
SumSizes(blocks) == IF blocks = <<>> THEN 0 ELSE blocks[1][3] + SumSizes(Tail(blocks))

\* number of matched elements: sum(triple[-1] for triple in get_matching_blocks())
Matches(a, b) == SumSizes(MatchingBlocksIn(a, b, 0, Len(a), 0, Len(b)))

\* mutant: the factor 2 of the ratio forgotten
calculate_ratio_NoDouble(matches, length) == IF length > 0 THEN Rat(matches, length) ELSE <<1, 1>>

\* _calculate_ratio(matches, length)
calculate_ratio(matches, length) == IF length > 0 THEN Rat(2 * matches, length) ELSE <<1, 1>>

\* mutant: the ratio taken over the length of a alone
SequenceMatcherRatio_LenA(a, b) == calculate_ratio(Matches(a, b), Len(a))

\* SequenceMatcher(None, a, b).ratio()
SequenceMatcherRatio(a, b) == calculate_ratio(Matches(a, b), Len(a) + Len(b))

\* get_matching_blocks: adjacent blocks merged, then the sentinel (la, lb, 0)
RECURSIVE MergeAdjacent(_, _)
MergeAdjacent(blocks, cur) ==
    IF blocks = <<>> THEN (IF cur[3] > 0 THEN <<cur>> ELSE <<>>)
    ELSE LET x == blocks[1]
         IN IF cur[1] + cur[3] = x[1] /\ cur[2] + cur[3] = x[2]
            THEN MergeAdjacent(Tail(blocks), <<cur[1], cur[2], cur[3] + x[3]>>)
            ELSE (IF cur[3] > 0 THEN <<cur>> ELSE <<>>) \o MergeAdjacent(Tail(blocks), x)

get_matching_blocks(a, b) ==
    MergeAdjacent(MatchingBlocksIn(a, b, 0, Len(a), 0, Len(b)), <<0, 0, 0>>)
        \o << <<Len(a), Len(b), 0>> >>

\* get_opcodes: <<tag, i1, i2, j1, j2>> with 0-based half-open ranges
RECURSIVE OpcodesFrom(_, _, _)
OpcodesFrom(blocks, i, j) ==
    IF blocks = <<>> THEN <<>>
    ELSE LET ai == blocks[1][1]
             bj == blocks[1][2]
             size == blocks[1][3]
             tag == IF i < ai /\ j < bj THEN "replace"
                    ELSE IF i < ai THEN "delete"
                    ELSE IF j < bj THEN "insert"
                    ELSE ""
         IN (IF tag # "" THEN << <<tag, i, ai, j, bj>> >> ELSE <<>>)
            \o (IF size > 0 THEN << <<"equal", ai, ai + size, bj, bj + size>> >> ELSE <<>>)
            \o OpcodesFrom(Tail(blocks), ai + size, bj + size)

get_opcodes(a, b) == OpcodesFrom(get_matching_blocks(a, b), 0, 0)

\* get_grouped_opcodes(n): the loop over the codes, carrying the open group
RECURSIVE GroupCodes(_, _, _)
GroupCodes(codes, group, n) ==
    IF codes = <<>>
    THEN (IF group # <<>> /\ ~ (Len(group) = 1 /\ group[1][1] = "equal")
          THEN <<group>> ELSE <<>>)
    ELSE LET c == codes[1]
         IN IF c[1] = "equal" /\ c[3] - c[2] > n + n
            THEN << Append(group, <<c[1], c[2], Min(c[3], c[2] + n), c[4], Min(c[5], c[4] + n)>>) >>
                 \o GroupCodes(Tail(codes),
                               << <<c[1], Max(c[2], c[3] - n), c[3], Max(c[4], c[5] - n), c[5]>> >>, n)
            ELSE GroupCodes(Tail(codes), Append(group, c), n)

\* get_grouped_opcodes: an empty list of codes becomes one "equal" code
OrOneEqual(codes) == IF codes = <<>> THEN << <<"equal", 0, 1, 0, 1>> >> ELSE codes

\* get_grouped_opcodes: a leading "equal" code keeps its last n elements
TrimFirst(codes, n) ==
    IF codes[1][1] = "equal"
    THEN << <<"equal", Max(codes[1][2], codes[1][3] - n), codes[1][3],
              Max(codes[1][4], codes[1][5] - n), codes[1][5]>> >> \o Tail(codes)
    ELSE codes

\* get_grouped_opcodes: a trailing "equal" code keeps its first n elements
TrimLast(codes, n) ==
    IF codes[Len(codes)][1] = "equal"
    THEN SubSeq(codes, 1, Len(codes) - 1)
         \o << <<"equal", codes[Len(codes)][2],
                 Min(codes[Len(codes)][3], codes[Len(codes)][2] + n),
                 codes[Len(codes)][4],
                 Min(codes[Len(codes)][5], codes[Len(codes)][4] + n)>> >>
    ELSE codes

get_grouped_opcodes(a, b, n) ==
    GroupCodes(TrimLast(TrimFirst(OrOneEqual(get_opcodes(a, b)), n), n), <<>>, n)

\* _format_range_unified(start, stop), a str
format_range_unified(start, stop) ==
    LET length == stop - start
    IN IF length = 1 THEN <<ToString(start + 1)>>
       ELSE <<ToString(IF length = 0 THEN start ELSE start + 1), ",", ToString(length)>>

\* the lines prefix + x for the elements x of s[lo+1 .. hi]
PrefixLines(prefix, s, lo, hi) == [ q \in 1..(hi - lo) |-> <<prefix>> \o s[lo + q] ]

RECURSIVE GroupLines(_, _, _)
GroupLines(group, a, b) ==
    IF group = <<>> THEN <<>>
    ELSE LET c == group[1]
         IN (IF c[1] = "equal" THEN PrefixLines(" ", a, c[2], c[3])
             ELSE (IF c[1] \in {"replace", "delete"} THEN PrefixLines("-", a, c[2], c[3]) ELSE <<>>)
                  \o (IF c[1] \in {"replace", "insert"} THEN PrefixLines("+", b, c[4], c[5]) ELSE <<>>))
            \o GroupLines(Tail(group), a, b)

RECURSIVE HunkLines(_, _, _)
HunkLines(groups, a, b) ==
    IF groups = <<>> THEN <<>>
    ELSE LET g == groups[1]
             first == g[1]
             last == g[Len(g)]
         IN << <<"@", "@", " ", "-">> \o format_range_unified(first[2], last[3])
               \o <<" ", "+">> \o format_range_unified(first[4], last[5]) \o <<" ", "@", "@">> >>
            \o GroupLines(g, a, b)
            \o HunkLines(Tail(groups), a, b)

\* unified_diff: the two file headers before the first hunk, no line at all
\* without a hunk
DiffOfGroups(groups, a, b) ==
    IF groups = <<>> THEN <<>>
    ELSE << <<"-", "-", "-", " ">>, <<"+", "+", "+", " ">> >> \o HunkLines(groups, a, b)

\* list(difflib.unified_diff(a, b, lineterm="")): a list of str; a and b are
\* lists of tokens
unified_diff(a, b) == DiffOfGroups(get_grouped_opcodes(a, b, 3), a, b)

\* ------------------------------------------------------------ the words
\* str.lower(), per character
LowerChar(c) ==
    CASE c = "H" -> "h"
      [] c = "A" -> "a"
      [] c = "U" -> "u"
      [] c = "Z" -> "z"
      [] OTHER -> c

Lower(w) == [ i \in 1..Len(w) |-> LowerChar(w[i]) ]

\* str.strip(): leading and trailing blanks removed
RECURSIVE LStrip(_)
LStrip(w) == IF w # <<>> /\ w[1] = " " THEN LStrip(Tail(w)) ELSE w

RECURSIVE RStrip(_)
RStrip(w) == IF w # <<>> /\ w[Len(w)] = " " THEN RStrip(SubSeq(w, 1, Len(w) - 1)) ELSE w

Strip(w) == RStrip(LStrip(w))

\* The pronouncing dictionary is an external collaborator.  Its stand-in has
\* one entry for every word of 1..MaxLen letters over h, a, u, a letter
\* standing for one phoneme; a word starting with "a" has a second variant.
LetterToken(c) ==
    CASE c = "h" -> <<"H", "H">>
      [] c = "a" -> <<"A", "H", "0">>
      [] c = "u" -> <<"A", "H", "1">>

Letters == {"h", "a", "u"}

DictWords == SeqsUpTo(Letters, MaxLen) \ { <<>> }

\* pronouncing.phones_for_word(word): the list of variants, [] on a miss
phones_for_word(word) ==
    IF word \in DictWords
    THEN LET ts == [ i \in 1..Len(word) |-> LetterToken(word[i]) ]
         IN IF word[1] = "a"
            THEN << Join(ts), Join([ts EXCEPT ![1] = <<"A", "H", "1">>]) >>
            ELSE << Join(ts) >>
    ELSE <<>>

\* the words handed to the operations: the dictionary's words, some of them
\* in upper case or padded with blanks, and words the dictionary lacks
Words == DictWords \cup { <<"H">>, <<"A", "h">>, <<" ", "a", "h">>, <<"h", "a", " ">>,
                          <<"z">>, <<" ">>, <<>> }

\* ------------------------------------------------------------ the state
VARIABLES
    PRONOUNCING_AVAILABLE,  \* backend_simple: whether "import pronouncing" succeeded
    cmudict_ok,             \* whether the dictionary answers (FALSE: phones_for_word raises)
    op,                     \* the operation that ran last
    args,                   \* its arguments
    result,                 \* its return value
    similarity,             \* the ratio its scoring step computed, None when it did not score
    calls,                  \* the calls and steps it made, in order
    temp_dir,               \* pronunciation_analyzer.temp_dir, the instance's only attribute
    call,                   \* per thread: the call it makes on the shared instance
    pc,                     \* per thread: where it is in its call
    frame,                  \* the local variables of the calls, one frame per call in flight
    returned,               \* per thread: <<v>> when its latest call returned v, else <<>>
    previous,               \* per thread: the same for its call before the latest
    tmp_files,              \* the temporary files the last call created that exist on its return
    app,                    \* the script of the session: app.py, app_deploy.py or app_simple.py
    widgets,                \* the values of the session's input widgets
    session_state           \* st.session_state

\* the state of the threads that call the shared instance
sharedVars == <<temp_dir, call, pc, frame, returned, previous>>

vars == <<PRONOUNCING_AVAILABLE, cmudict_ok, op, args, result, similarity, calls,
          temp_dir, call, pc, frame, returned, previous, tmp_files,
          app, widgets, session_state>>

\* the state of an app session
sessionVars == <<app, widgets, session_state>>

\* `not x` for an Optional[str]
Falsy(x) == x = None \/ x = <<>>

\* ---------------------------------------------- backend/phoneme_check.py
\* mutant: the word lower-cased but not stripped before the query
PronunciationAnalyzer_get_phonemes_NoStrip(word) ==
    IF ~ cmudict_ok THEN None
    ELSE LET phones == phones_for_word(Lower(word))
         IN IF phones # <<>> THEN phones[1] ELSE None

\* PronunciationAnalyzer.get_phonemes: an exception of the query is caught,
\* reported and answered with None
PronunciationAnalyzer_get_phonemes(word) ==
    IF ~ cmudict_ok THEN None
    ELSE LET phones == phones_for_word(Strip(Lower(word)))
         IN IF phones # <<>> THEN phones[1] ELSE None

\* mutant: the last step of the ladder compared with > instead of >=
score_feedback_StrictLast(score) ==
    IF RatGE(score, 90) THEN "Excellent pronunciation!"
    ELSE IF RatGE(score, 80) THEN "Good pronunciation!"
    ELSE IF RatGE(score, 70) THEN "Fair pronunciation, keep practicing!"
    ELSE IF RatGE(score, 50) /\ score # <<50, 1>> THEN "Needs improvement. Try again!"
    ELSE "Significant improvement needed. Practice more!"

\* the feedback ladder of calculate_pronunciation_score
score_feedback(score) ==
    IF RatGE(score, 90) THEN "Excellent pronunciation!"
    ELSE IF RatGE(score, 80) THEN "Good pronunciation!"
    ELSE IF RatGE(score, 70) THEN "Fair pronunciation, keep practicing!"
    ELSE IF RatGE(score, 50) THEN "Needs improvement. Try again!"
    ELSE "Significant improvement needed. Practice more!"

\* the similarity step of calculate_pronunciation_score: the matcher is given
\* the two str values
score_similarity(user_phonemes, target_phonemes) ==
    SequenceMatcherRatio(user_phonemes, target_phonemes)

\* Python round() of a non-negative float: half to even
RoundHalfEven(r) ==
    LET q == r[1] \div r[2]
        rem == r[1] % r[2]
    IN IF 2 * rem < r[2] THEN q
       ELSE IF 2 * rem > r[2] THEN q + 1
       ELSE IF q % 2 = 0 THEN q ELSE q + 1

\* mutant: the score rounded to an integer
score_of_similarity_Rounded(sim) == <<RoundHalfEven(RatTimes(sim, 100)), 1>>

\* similarity * 100
score_of_similarity(sim) == RatTimes(sim, 100)

\* calculate_pronunciation_score once the similarity is known
score_and_feedback(sim) ==
    [ret |-> <<score_of_similarity(sim), score_feedback(score_of_similarity(sim))>>,
     similarity |-> sim]

\* PronunciationAnalyzer.calculate_pronunciation_score: [ret, similarity]
calculate_pronunciation_score(user_phonemes, target_phonemes) ==
    IF Falsy(user_phonemes) \/ Falsy(target_phonemes)
    THEN [ret |-> << <<0, 1>>, "Could not analyze pronunciation" >>, similarity |-> None]
    ELSE score_and_feedback(score_similarity(user_phonemes, target_phonemes))

\* the tips of the diff lines after the two headers
RECURSIVE DiffTips(_)
DiffTips(lines) ==
    IF lines = <<>> THEN <<>>
    ELSE LET line == lines[1]
         IN (IF line[1] = "-" THEN << <<"Missing", Strip(Tail(line))>> >>
             ELSE IF line[1] = "+" THEN << <<"Extra", Strip(Tail(line))>> >>
             ELSE <<>>)
            \o DiffTips(Tail(lines))

\* get_pronunciation_tips: the tip list, or the default tip when it is empty
TipsOrDefault(tips) ==
    IF tips # <<>> THEN tips
    ELSE << <<"Keep practicing to improve your pronunciation!">> >>

\* get_pronunciation_tips once the diff is known
TipsOfDiff(diff, user_phonemes, target_phonemes) ==
    TipsOrDefault(
        (IF Len(diff) > 2
         THEN << <<"Focus on the specific sound differences:">> >>
              \o DiffTips(SubSeq(diff, 3, Len(diff)))
         ELSE <<>>)
        \o (IF 10 * Len(user_phonemes) < 8 * Len(target_phonemes)
            THEN << <<"Try to pronounce all syllables clearly">> >> ELSE <<>>)
        \o (IF 10 * Len(user_phonemes) > 12 * Len(target_phonemes)
            THEN << <<"Try to pronounce more concisely">> >> ELSE <<>>))

\* mutant: the guard against an empty phoneme string left out
PronunciationAnalyzer_get_pronunciation_tips_NoGuard(user_phonemes, target_phonemes) ==
    TipsOfDiff(unified_diff(Split(target_phonemes), Split(user_phonemes)),
               user_phonemes, target_phonemes)

\* PronunciationAnalyzer.get_pronunciation_tips
PronunciationAnalyzer_get_pronunciation_tips(user_phonemes, target_phonemes) ==
    IF Falsy(user_phonemes) \/ Falsy(target_phonemes)
    THEN << <<"Could not analyze pronunciation for tips">> >>
    ELSE TipsOfDiff(unified_diff(Split(target_phonemes), Split(user_phonemes)),
                    user_phonemes, target_phonemes)

\* analyze_pronunciation calling only an Excellent score correct
analysis_record_Correct90(sc, tips, user_phonemes, target_phonemes, lookups) ==
    [ret |-> [user_phonemes |-> user_phonemes,
              target_phonemes |-> target_phonemes,
              score |-> sc.ret[1],
              feedback |-> sc.ret[2],
              tips |-> tips,
              is_correct |-> RatGE(sc.ret[1], 90)],
     similarity |-> sc.similarity,
     calls |-> lookups \o
               << <<"calculate_pronunciation_score", user_phonemes, target_phonemes>>,
                  <<"get_pronunciation_tips", user_phonemes, target_phonemes>> >>]

\* the result of analyze_pronunciation from the score sc and the tips
analysis_record(sc, tips, user_phonemes, target_phonemes, lookups) ==
    [ret |-> [user_phonemes |-> user_phonemes,
              target_phonemes |-> target_phonemes,
              score |-> sc.ret[1],
              feedback |-> sc.ret[2],
              tips |-> tips,
              is_correct |-> RatGE(sc.ret[1], 80)],
     similarity |-> sc.similarity,
     calls |-> lookups \o
               << <<"calculate_pronunciation_score", user_phonemes, target_phonemes>>,
                  <<"get_pronunciation_tips", user_phonemes, target_phonemes>> >>]

\* analyze_pronunciation after the lookups succeeded: score, feedback and tips
analysis_of_phonemes(user_phonemes, target_phonemes, lookups) ==
    analysis_record(calculate_pronunciation_score(user_phonemes, target_phonemes),
                    PronunciationAnalyzer_get_pronunciation_tips(user_phonemes, target_phonemes),
                    user_phonemes, target_phonemes, lookups)

\* the two lookups of analyze_pronunciation, as entries of the call log
analysis_lookups(user_word, target_word) ==
    << <<"get_phonemes", user_word, PronunciationAnalyzer_get_phonemes(user_word)>>,
       <<"get_phonemes", target_word, PronunciationAnalyzer_get_phonemes(target_word)>> >>

\* mutant: the check of the user word's lookup left out
analyze_pronunciation_NoUserCheck(user_word, target_word) ==
    LET lookups == analysis_lookups(user_word, target_word)
    IN IF Falsy(lookups[2][3])
       THEN [ret |-> [error |-> <<"Could not find phonemes for target word", target_word>>,
                      score |-> <<0, 1>>,
                      feedback |-> "Target word not found in dictionary"],
             similarity |-> None, calls |-> lookups]
       ELSE analysis_of_phonemes(lookups[1][3], lookups[2][3], lookups)

\* mutant: the user word's lookup checked before the target word's
analyze_pronunciation_UserFirst(user_word, target_word) ==
    LET lookups == analysis_lookups(user_word, target_word)
    IN IF Falsy(lookups[1][3])
       THEN [ret |-> [error |-> <<"Could not find phonemes for user word", user_word>>,
                      score |-> <<0, 1>>,
                      feedback |-> "User word not found in dictionary"],
             similarity |-> None, calls |-> lookups]
       ELSE IF Falsy(lookups[2][3])
       THEN [ret |-> [error |-> <<"Could not find phonemes for target word", target_word>>,
                      score |-> <<0, 1>>,
                      feedback |-> "Target word not found in dictionary"],
             similarity |-> None, calls |-> lookups]
       ELSE analysis_of_phonemes(lookups[1][3], lookups[2][3], lookups)

\* PronunciationAnalyzer.analyze_pronunciation: [ret, similarity, calls]
analyze_pronunciation(user_word, target_word) ==
    LET lookups == analysis_lookups(user_word, target_word)
        user_phonemes == lookups[1][3]
        target_phonemes == lookups[2][3]
    IN IF Falsy(target_phonemes)
       THEN [ret |-> [error |-> <<"Could not find phonemes for target word", target_word>>,
                      score |-> <<0, 1>>,
                      feedback |-> "Target word not found in dictionary"],
             similarity |-> None, calls |-> lookups]
       ELSE IF Falsy(user_phonemes)
       THEN [ret |-> [error |-> <<"Could not find phonemes for user word", user_word>>,
                      score |-> <<0, 1>>,
                      feedback |-> "User word not found in dictionary"],
             similarity |-> None, calls |-> lookups]
       ELSE analysis_of_phonemes(user_phonemes, target_phonemes, lookups)

\* the module-level get_pronunciation_tips(user_word, target_word): [ret, calls]
get_pronunciation_tips(user_word, target_word) ==
    LET user_phonemes == PronunciationAnalyzer_get_phonemes(user_word)
        target_phonemes == PronunciationAnalyzer_get_phonemes(target_word)
        lookups == << <<"get_phonemes", user_word, user_phonemes>>,
                      <<"get_phonemes", target_word, target_phonemes>> >>
    IN IF ~ Falsy(user_phonemes) /\ ~ Falsy(target_phonemes)
       THEN [ret |-> PronunciationAnalyzer_get_pronunciation_tips(user_phonemes, target_phonemes),
             calls |-> Append(lookups, <<"get_pronunciation_tips", user_phonemes, target_phonemes>>)]
       ELSE [ret |-> << <<"Could not analyze pronunciation for tips">> >>, calls |-> lookups]

\* --------------------------------------- backend_simple/phoneme_check.py
\* what a call shows when an exception leaves it
Raised == <<"Exception">>

\* mutant: the exception of the dictionary query not caught
simple_get_phonemes_Propagates(word) ==
    IF ~ PRONOUNCING_AVAILABLE THEN None
    ELSE IF ~ cmudict_ok THEN Raised
    ELSE LET phones == phones_for_word(Strip(Lower(word)))
         IN IF phones # <<>> THEN phones[1] ELSE None

\* get_phonemes: None without the library, and an exception of the query is
\* caught and answered with None
simple_get_phonemes(word) ==
    IF ~ PRONOUNCING_AVAILABLE THEN None
    ELSE IF ~ cmudict_ok THEN None
    ELSE LET phones == phones_for_word(Strip(Lower(word)))
         IN IF phones # <<>> THEN phones[1] ELSE None

\* set(parts)
Range(s) == { s[i] : i \in 1..Len(s) }

\* the ladder of the else branch of compare_pronunciation
simple_feedback(score) ==
    IF RatGE(score, 90) THEN "Excellent pronunciation!"
    ELSE IF RatGE(score, 80) THEN "Good pronunciation!"
    ELSE IF RatGE(score, 70) THEN "Fair pronunciation, keep practicing!"
    ELSE "Needs improvement. Try again!"

\* len(common_parts) / max(len(user_parts), len(target_parts)); the parts are
\* never empty, a dictionary entry has a token
simple_similarity(user_phonemes, target_phonemes) ==
    LET user_parts == Split(user_phonemes)
        target_parts == Split(target_phonemes)
        common_parts == Range(user_parts) \cap Range(target_parts)
    IN Rat(Cardinality(common_parts), Max(Len(user_parts), Len(target_parts)))

\* the "simple comparison" of compare_pronunciation: [score, feedback, similarity]
simple_comparison(user_phonemes, target_phonemes) ==
    IF user_phonemes = target_phonemes
    THEN [score |-> <<100, 1>>, feedback |-> "Excellent pronunciation!", similarity |-> None]
    ELSE LET sim == simple_similarity(user_phonemes, target_phonemes)
             score == RatTimes(sim, 100)
         IN [score |-> score, feedback |-> simple_feedback(score), similarity |-> sim]

\* compare_pronunciation: [ret, similarity, calls]
simple_compare_pronunciation(user_word, target_word, play_only) ==
    IF play_only THEN [ret |-> None, similarity |-> None, calls |-> <<>>]
    ELSE IF ~ PRONOUNCING_AVAILABLE
    THEN [ret |-> [error |-> <<"Pronunciation analysis not available">>],
          similarity |-> None, calls |-> <<>>]
    ELSE LET user_phonemes == simple_get_phonemes(user_word)
             target_phonemes == simple_get_phonemes(target_word)
             lookups == << <<"get_phonemes", user_word, user_phonemes>>,
                           <<"get_phonemes", target_word, target_phonemes>> >>
         IN IF Falsy(target_phonemes)
            THEN [ret |-> [error |-> <<"Could not find phonemes for target word", target_word>>],
                  similarity |-> None, calls |-> lookups]
            ELSE IF Falsy(user_phonemes)
            THEN [ret |-> [error |-> <<"Could not find phonemes for user word", user_word>>],
                  similarity |-> None, calls |-> lookups]
            ELSE LET c == simple_comparison(user_phonemes, target_phonemes)
                 IN [ret |-> [user_phonemes |-> user_phonemes,
                              target_phonemes |-> target_phonemes,
                              score |-> c.score,
                              feedback |-> c.feedback,
                              is_correct |-> RatGE(c.score, 80)],
                     similarity |-> c.similarity,
                     calls |-> Append(lookups, <<"simple_comparison", user_phonemes, target_phonemes>>)]

\* ------------------------------------------- backend/emotion_detect.py
\* A dict is the sequence of its <<key, value>> pairs in insertion order.
Keys(d) == { d[i][1] : i \in 1..Len(d) }

\* d[key]
DictItem(d, key) == d[CHOOSE i \in 1..Len(d) : d[i][1] = key][2]

\* d.get(key, default)
DictGet(d, key, default) == IF key \in Keys(d) THEN DictItem(d, key) ELSE default

\* x > y, for two rationals
RatGT(x, y) == x[1] * y[2] > y[1] * x[2]

\* max(d, key=d.get) keeps the last of the maximal keys
RECURSIVE MaxKeyFrom_LastWins(_, _, _)
MaxKeyFrom_LastWins(d, i, best) ==
    IF i > Len(d) THEN d[best][1]
    ELSE MaxKeyFrom_LastWins(d, i + 1, IF ~ RatGT(d[best][2], d[i][2]) THEN i ELSE best)

\* max(d, key=d.get): the keys are visited in insertion order and a key
\* replaces the best so far only when its value is strictly greater
RECURSIVE MaxKeyFrom(_, _, _)
MaxKeyFrom(d, i, best) ==
    IF i > Len(d) THEN d[best][1]
    ELSE MaxKeyFrom(d, i + 1, IF RatGT(d[i][2], d[best][2]) THEN i ELSE best)

\* EmotionDetector.emotion_labels
emotion_labels == <<"Angry", "Disgust", "Fear", "Happy", "Sad", "Surprise", "Neutral">>

\* EmotionDetector.get_dominant_emotion(emotion_probs)
get_dominant_emotion(emotion_probs) ==
    IF emotion_probs = <<>>
    THEN <<"Unknown", Rat(0, 1)>>
    ELSE LET dominant_emotion == MaxKeyFrom(emotion_probs, 2, 1)
         IN <<dominant_emotion, DictItem(emotion_probs, dominant_emotion)>>

\* the emotion dicts the operations are studied on: up to MaxKeys of these
\* labels, in any order, with these probabilities
MaxKeys == 3
StudyLabels == {"Angry", "Happy", "Sad", "Neutral"}
StudyProbs == { Rat(1, 10), Rat(4, 5) }
EmotionDicts ==
    { d \in SeqsUpTo(StudyLabels \X StudyProbs, MaxKeys) :
        \A i, j \in 1..Len(d) : d[i][1] = d[j][1] => i = j }

\* --------------------------------------------------- the audio functions
\* Uploaded files: a WAV recording of speech, a WAV recording without
\* intelligible speech, and an MP3 recording (the uploader accepts wav, mp3
\* and m4a); duration is frames / sample rate of a WAV file.
AudioFiles ==
    { [format |-> "wav", speech |-> <<"h", "a">>, duration |-> Rat(3, 2)],
      [format |-> "wav", speech |-> <<"h", "u">>, duration |-> Rat(3, 2)],
      [format |-> "wav", speech |-> <<>>, duration |-> Rat(1, 1)],
      [format |-> "mp3", speech |-> <<"h", "a">>, duration |-> Rat(3, 2)] }

\* tempfile.NamedTemporaryFile(delete=False, suffix=".wav"): a new file in
\* the temporary directory
NamedTemporaryFile == <<temp_dir, "tmpfile.wav">>

\* What reading the saved file and recognize_google can do: sr.AudioFile
\* raises on data that is not WAV/AIFF/FLAC; the service recognises the
\* speech, finds none (UnknownValueError), or cannot be reached (RequestError).
Recognitions(audio_file) ==
    IF audio_file.format # "wav" THEN { <<"raise", "ValueError">> }
    ELSE { <<"raise", "RequestError">> }
         \cup (IF audio_file.speech = <<>>
               THEN { <<"raise", "UnknownValueError">> }
               ELSE { <<"text", audio_file.speech>> })

\* AudioProcessor.transcribe_audio_file(audio_file), with the recognition
\* ending as `recognition`: the value returned and the temporary files left
transcribe_audio_file(audio_file, recognition) ==
    LET tmp_file_path == NamedTemporaryFile
    IN IF recognition[1] = "text"
       THEN [ret |-> recognition[2], left |-> {}]
       ELSE [ret |-> None, left |-> {tmp_file_path}]

\* backend.process_audio.transcribe_audio(audio_file)
transcribe_audio(audio_file, recognition) == transcribe_audio_file(audio_file, recognition)

\* AudioProcessor.get_audio_duration(audio_file): wave.open raises on a
\* file that is not RIFF/WAVE
get_audio_duration(audio_file) ==
    LET tmp_file_path == NamedTemporaryFile
    IN IF audio_file.format = "wav"
       THEN [ret |-> audio_file.duration, left |-> {}]
       ELSE [ret |-> Rat(0, 1), left |-> {tmp_file_path}]

\* backend_simple.process_audio.transcribe_audio(audio_file)
simple_transcribe_audio(SPEECH_RECOGNITION_AVAILABLE, audio_file, recognition) ==
    IF ~ SPEECH_RECOGNITION_AVAILABLE
    THEN [ret |-> None, left |-> {}]
    ELSE LET tmp_file_path == NamedTemporaryFile
         IN IF recognition[1] = "text"
            THEN [ret |-> recognition[2], left |-> {}]
            ELSE [ret |-> None, left |-> {tmp_file_path}]

\* What gTTS and playsound can do in play_correct_pronunciation: the speech
\* is saved and played; gTTS(...) raises before any file is opened; tts.save
\* raises after it opened the file; playsound raises on the saved file.
Playbacks == {"played", "gTTS raises", "save raises", "playsound raises"}

\* PronunciationAnalyzer.play_correct_pronunciation(word)
play_correct_pronunciation(word, playback) ==
    LET temp_file == <<temp_dir, "pronunciation", word>>
    IN CASE playback = "played" -> [ret |-> TRUE, left |-> {}]
         [] playback = "gTTS raises" -> [ret |-> FALSE, left |-> {}]
         [] OTHER -> [ret |-> FALSE, left |-> {temp_file}]

\* --------------------------------------------- the threads of the sessions
\* Every session's script runs in a thread of its own and calls the one
\* module-level pronunciation_analyzer.
Threads == {1, 2}

\* the frame of a call that has bound no local yet
NoFrame ==
    [user_phonemes |-> None, target_phonemes |-> None, score |-> None,
     feedback |-> None, tips |-> <<>>]

\* no thread has called yet
ThreadsIdle ==
    /\ pc = [t \in Threads |-> "idle"]
    /\ frame = [t \in Threads |-> NoFrame]
    /\ returned = [t \in Threads |-> <<>>]
    /\ previous = [t \in Threads |-> <<>>]

\* no app session is open
NoSession ==
    /\ app = "none"
    /\ widgets = <<>>
    /\ session_state = <<>>

\* ------------------------------------------------------------ the machine
\* The operations are functions of their arguments: the arguments of the
\* call under study are drawn once, and the operations are applied to them.
Init ==
    /\ PRONOUNCING_AVAILABLE \in BOOLEAN
    /\ cmudict_ok \in BOOLEAN
    /\ op = "init"
    /\ \/ args \in [user : Words, target : Words] \cup [user : PhonemeStrings, target : PhonemeStrings]
       \/ /\ PRONOUNCING_AVAILABLE /\ cmudict_ok
          /\ args \in [emotion_probs : EmotionDicts] \cup [audio_file : AudioFiles]
    /\ result = None
    /\ similarity = None
    /\ calls = <<>>
    /\ temp_dir = "tmp"
    /\ tmp_files = {}
    /\ NoSession
    /\ call = [t \in Threads |-> None]
    /\ ThreadsIdle

\* backend/phoneme_check.py imports pronouncing unconditionally: its
\* operations exist only when the import succeeded
BackendImported == PRONOUNCING_AVAILABLE

\* the call under study takes a spoken and a target word (or phoneme string)
WordArgs == DOMAIN args = {"user", "target"}

\* the call `name` returns r: its value, the ratio it computed, its call log;
\* it created no temporary file
Returns(name, r) ==
    /\ op' = name
    /\ result' = r.ret
    /\ similarity' = r.similarity
    /\ calls' = r.calls
    /\ tmp_files' = {}
    /\ UNCHANGED <<PRONOUNCING_AVAILABLE, cmudict_ok, args>>
    /\ UNCHANGED sharedVars
    /\ UNCHANGED sessionVars

\* the call `name` returns r.ret and leaves the temporary files r.left
ReturnsLeaving(name, r) ==
    /\ op' = name
    /\ result' = r.ret
    /\ similarity' = None
    /\ calls' = <<>>
    /\ tmp_files' = r.left
    /\ UNCHANGED <<PRONOUNCING_AVAILABLE, cmudict_ok, args>>
    /\ UNCHANGED sharedVars
    /\ UNCHANGED sessionVars

\* pronunciation_analyzer.calculate_pronunciation_score(user_phonemes, target_phonemes)
CalculatePronunciationScore ==
    /\ BackendImported
    /\ WordArgs
    /\ args.user \in PhonemeStrings /\ args.target \in PhonemeStrings
    /\ Returns("calculate_pronunciation_score",
               [calls |-> <<>>] @@ calculate_pronunciation_score(args.user, args.target))

\* pronunciation_analyzer.get_pronunciation_tips(user_phonemes, target_phonemes)
GetPronunciationTipsOfPhonemes ==
    /\ BackendImported
    /\ WordArgs
    /\ args.user \in PhonemeStrings /\ args.target \in PhonemeStrings
    /\ Returns("PronunciationAnalyzer.get_pronunciation_tips",
               [ret |-> PronunciationAnalyzer_get_pronunciation_tips(args.user, args.target),
                similarity |-> None, calls |-> <<>>])

\* pronunciation_analyzer.analyze_pronunciation(user_word, target_word)
AnalyzePronunciation ==
    /\ BackendImported
    /\ WordArgs
    /\ args.user \in Words /\ args.target \in Words
    /\ Returns("analyze_pronunciation", analyze_pronunciation(args.user, args.target))

\* backend.phoneme_check.get_pronunciation_tips(user_word, target_word)
GetPronunciationTips ==
    /\ BackendImported
    /\ WordArgs
    /\ args.user \in Words /\ args.target \in Words
    /\ Returns("get_pronunciation_tips",
               [similarity |-> None] @@ get_pronunciation_tips(args.user, args.target))

\* backend.phoneme_check.get_phonemes(word)
GetPhonemes ==
    /\ BackendImported
    /\ WordArgs
    /\ args.user \in Words /\ args.target \in Words
    /\ Returns("get_phonemes",
               [ret |-> PronunciationAnalyzer_get_phonemes(args.user),
                similarity |-> None, calls |-> <<>>])

\* backend_simple.phoneme_check.get_phonemes(word)
SimpleGetPhonemes ==
    /\ WordArgs
    /\ args.user \in Words /\ args.target \in Words
    /\ Returns("simple.get_phonemes",
               [ret |-> simple_get_phonemes(args.user),
                similarity |-> None, calls |-> <<>>])

\* backend_simple.phoneme_check.compare_pronunciation(user_word, target_word, play_only)
SimpleComparePronunciation ==
    /\ WordArgs
    /\ args.user \in Words /\ args.target \in Words
    /\ \E play_only \in BOOLEAN :
         Returns(IF play_only THEN "simple.compare_pronunciation(play_only)"
                 ELSE "simple.compare_pronunciation",
                 simple_compare_pronunciation(args.user, args.target, play_only))

\* emotion_detector.get_dominant_emotion(emotion_probs)
GetDominantEmotion ==
    /\ DOMAIN args = {"emotion_probs"}
    /\ Returns("get_dominant_emotion",
               [ret |-> get_dominant_emotion(args.emotion_probs),
                similarity |-> None, calls |-> <<>>])

\* the call under study takes an uploaded audio file
AudioArgs == DOMAIN args = {"audio_file"}

\* backend.process_audio.transcribe_audio(audio_file)
TranscribeAudio ==
    /\ AudioArgs
    /\ \E recognition \in Recognitions(args.audio_file) :
         ReturnsLeaving("transcribe_audio", transcribe_audio(args.audio_file, recognition))

\* audio_processor.get_audio_duration(audio_file)
GetAudioDuration ==
    /\ AudioArgs
    /\ ReturnsLeaving("get_audio_duration", get_audio_duration(args.audio_file))

\* backend_simple.process_audio.transcribe_audio(audio_file)
SimpleTranscribeAudio ==
    /\ AudioArgs
    /\ \E SPEECH_RECOGNITION_AVAILABLE \in BOOLEAN, recognition \in Recognitions(args.audio_file) :
         ReturnsLeaving("simple.transcribe_audio",
                        simple_transcribe_audio(SPEECH_RECOGNITION_AVAILABLE,
                                                args.audio_file, recognition))

\* pronunciation_analyzer.play_correct_pronunciation(word)
PlayCorrectPronunciation ==
    /\ BackendImported
    /\ WordArgs
    /\ args.user \in Words /\ args.target \in Words
    /\ \E playback \in Playbacks :
         ReturnsLeaving("play_correct_pronunciation",
                        play_correct_pronunciation(args.target, playback))

Next ==
    \/ CalculatePronunciationScore
    \/ GetPronunciationTipsOfPhonemes
    \/ AnalyzePronunciation
    \/ GetPronunciationTips
    \/ GetPhonemes
    \/ SimpleGetPhonemes
    \/ SimpleComparePronunciation
    \/ GetDominantEmotion
    \/ TranscribeAudio
    \/ GetAudioDuration
    \/ SimpleTranscribeAudio
    \/ PlayCorrectPronunciation

Spec == Init /\ [][Next]_vars

\* ------------------------------------------ calls on the shared instance
\* The calls of analyze_pronunciation and of the module-level
\* get_pronunciation_tips, statement by statement, by threads that share
\* pronunciation_analyzer.

\* the words the threads' calls are about: a hit, a hit after
\* normalisation with two variants, and a miss
SharedWords == { <<"h">>, <<"A", "h">>, <<"z">> }

SharedCalls ==
    [name : {"analyze_pronunciation", "get_pronunciation_tips"},
     user : SharedWords, target : SharedWords]

InitShared ==
    /\ PRONOUNCING_AVAILABLE = TRUE
    /\ cmudict_ok \in BOOLEAN
    /\ op = "init"
    /\ args = [user |-> <<>>, target |-> <<>>]
    /\ result = None
    /\ similarity = None
    /\ calls = <<>>
    /\ temp_dir = "tmp"
    /\ tmp_files = {}
    /\ NoSession
    /\ call \in [Threads -> SharedCalls]
    /\ ThreadsIdle

\* mutant: the locals kept on the one shared instance
FrameOf_OnInstance(t) == 1

\* where the locals of thread t's call live: in the call's own frame
FrameOf(t) == t

\* mutant: the locals of the earlier call still bound, its tips list reused
NewFrame_Kept(old) == old

\* the locals at the entry of a call: none bound, and tips = []
NewFrame(old) == NoFrame

\* no step of a call writes anything but the call's frame and its return value
SharedUnchanged ==
    /\ UNCHANGED <<PRONOUNCING_AVAILABLE, cmudict_ok, op, args, result, similarity, calls,
                   temp_dir, call, tmp_files>>
    /\ UNCHANGED sessionVars

\* the call of thread t returns value
Finish(t, value) ==
    /\ pc' = [pc EXCEPT ![t] = "idle"]
    /\ returned' = [returned EXCEPT ![t] = <<value>>]
    /\ previous' = [previous EXCEPT ![t] = returned[t]]
    /\ UNCHANGED frame

\* thread t enters its call
EnterCall(t) ==
    /\ pc[t] = "idle"
    /\ pc' = [pc EXCEPT ![t] = "lookup_user"]
    /\ frame' = [frame EXCEPT ![FrameOf(t)] = NewFrame(@)]
    /\ UNCHANGED <<returned, previous>>
    /\ SharedUnchanged

\* user_phonemes = pronunciation_analyzer.get_phonemes(user_word)
LookupUser(t) ==
    /\ pc[t] = "lookup_user"
    /\ pc' = [pc EXCEPT ![t] = "lookup_target"]
    /\ frame' = [frame EXCEPT ![FrameOf(t)].user_phonemes =
                                  PronunciationAnalyzer_get_phonemes(call[t].user)]
    /\ UNCHANGED <<returned, previous>>
    /\ SharedUnchanged

\* target_phonemes = pronunciation_analyzer.get_phonemes(target_word)
LookupTarget(t) ==
    /\ pc[t] = "lookup_target"
    /\ pc' = [pc EXCEPT ![t] = "check"]
    /\ frame' = [frame EXCEPT ![FrameOf(t)].target_phonemes =
                                  PronunciationAnalyzer_get_phonemes(call[t].target)]
    /\ UNCHANGED <<returned, previous>>
    /\ SharedUnchanged

\* the tests of the two lookups: analyze_pronunciation returns an error for
\* the target word, then for the user word; get_pronunciation_tips returns
\* its one tip unless both lookups succeeded
CheckLookups(t) ==
    /\ pc[t] = "check"
    /\ IF call[t].name = "analyze_pronunciation"
       THEN IF Falsy(frame[FrameOf(t)].target_phonemes)
            THEN Finish(t, [error |-> <<"Could not find phonemes for target word", call[t].target>>,
                            score |-> <<0, 1>>,
                            feedback |-> "Target word not found in dictionary"])
            ELSE IF Falsy(frame[FrameOf(t)].user_phonemes)
            THEN Finish(t, [error |-> <<"Could not find phonemes for user word", call[t].user>>,
                            score |-> <<0, 1>>,
                            feedback |-> "User word not found in dictionary"])
            ELSE pc' = [pc EXCEPT ![t] = "score"] /\ UNCHANGED <<frame, returned, previous>>
       ELSE IF ~ Falsy(frame[FrameOf(t)].user_phonemes) /\ ~ Falsy(frame[FrameOf(t)].target_phonemes)
            THEN pc' = [pc EXCEPT ![t] = "tips"] /\ UNCHANGED <<frame, returned, previous>>
            ELSE Finish(t, << <<"Could not analyze pronunciation for tips">> >>)
    /\ SharedUnchanged

\* score, feedback = self.calculate_pronunciation_score(user_phonemes, target_phonemes)
ScoreStep(t) ==
    /\ pc[t] = "score"
    /\ pc' = [pc EXCEPT ![t] = "tips"]
    /\ frame' = [frame EXCEPT
                   ![FrameOf(t)].score =
                       calculate_pronunciation_score(frame[FrameOf(t)].user_phonemes,
                                                     frame[FrameOf(t)].target_phonemes).ret[1],
                   ![FrameOf(t)].feedback =
                       calculate_pronunciation_score(frame[FrameOf(t)].user_phonemes,
                                                     frame[FrameOf(t)].target_phonemes).ret[2]]
    /\ UNCHANGED <<returned, previous>>
    /\ SharedUnchanged

\* tips = self.get_pronunciation_tips(user_phonemes, target_phonemes): the
\* list that started empty, with the tips appended
TipsStep(t) ==
    /\ pc[t] = "tips"
    /\ pc' = [pc EXCEPT ![t] = "return"]
    /\ frame' = [frame EXCEPT
                   ![FrameOf(t)].tips =
                       @ \o PronunciationAnalyzer_get_pronunciation_tips(
                                frame[FrameOf(t)].user_phonemes,
                                frame[FrameOf(t)].target_phonemes)]
    /\ UNCHANGED <<returned, previous>>
    /\ SharedUnchanged

\* the value the return statement of thread t's call builds from the locals
ReturnValue(t) ==
    IF call[t].name = "analyze_pronunciation"
    THEN [user_phonemes |-> frame[FrameOf(t)].user_phonemes,
          target_phonemes |-> frame[FrameOf(t)].target_phonemes,
          score |-> frame[FrameOf(t)].score,
          feedback |-> frame[FrameOf(t)].feedback,
          tips |-> frame[FrameOf(t)].tips,
          is_correct |-> RatGE(frame[FrameOf(t)].score, 80)]
    ELSE frame[FrameOf(t)].tips

ReturnStep(t) ==
    /\ pc[t] = "return"
    /\ Finish(t, ReturnValue(t))
    /\ SharedUnchanged

NextShared ==
    \E t \in Threads :
        \/ EnterCall(t)
        \/ LookupUser(t)
        \/ LookupTarget(t)
        \/ CheckLookups(t)
        \/ ScoreStep(t)
        \/ TipsStep(t)
        \/ ReturnStep(t)

SpecShared == InitShared /\ [][NextShared]_vars

\* ------------------------------------------------------ the app sessions
\* A session of app.py, app_deploy.py or app_simple.py: Streamlit runs the
\* whole script again after every interaction, with the widgets' values and
\* st.session_state kept from run to run.

\* st.file_uploader holding no file
NoFile == [format |-> "none", speech |-> <<>>, duration |-> Rat(0, 1)]

\* the image uploader holding no image
NoImage == "none"

\* x + y, for two rationals
RatAdd(x, y) == Rat(x[1] * y[2] + y[1] * x[2], x[2] * y[2])

\* x / n, for a rational and a positive integer
RatDivInt(x, n) == Rat(x[1], x[2] * n)

\* st.session_state of a new session, and of a session just reset (every
\* app writes the same literals in both places; app_deploy.py and
\* app_simple.py have no emotion_history and no total_emotions_detected,
\* which stay as they are here)
NewSession ==
    [pronunciation_history |-> <<>>,
     emotion_history |-> <<>>,
     session_stats |-> [total_words_practiced |-> 0,
                        average_pronunciation_score |-> Rat(0, 1),
                        total_emotions_detected |-> 0]]

\* the body of `if st.button("Reset Session"):`
ResetSession(S) == NewSession

\* mutant: the entry appended without counting it
RecordAnalysis_NotCounted(S, word, user_text, score) ==
    [S EXCEPT !.pronunciation_history =
                  Append(@, [word |-> word, user_text |-> user_text, score |-> score])]

\* mutant: the old average weighted with the new count
RecordAnalysis_NewCount(S, word, user_text, score) ==
    LET n == S.session_stats.total_words_practiced + 1
    IN [S EXCEPT !.session_stats.total_words_practiced = n,
                 !.session_stats.average_pronunciation_score =
                     RatDivInt(RatAdd(RatTimes(@, n), score), n),
                 !.pronunciation_history =
                     Append(@, [word |-> word, user_text |-> user_text, score |-> score])]

\* "Update session stats" and "Add to history": the count incremented, the
\* average updated incrementally, the entry appended (its timestamp is not
\* kept)
RecordAnalysis(S, word, user_text, score) ==
    LET n == S.session_stats.total_words_practiced + 1
    IN [S EXCEPT !.session_stats.total_words_practiced = n,
                 !.session_stats.average_pronunciation_score =
                     RatDivInt(RatAdd(RatTimes(@, n - 1), score), n),
                 !.pronunciation_history =
                     Append(@, [word |-> word, user_text |-> user_text, score |-> score])]

\* score_similarity, tabulated: the ratio of every pair of phoneme strings
Ratios ==
    [ user_phonemes \in PhonemeStrings |->
        [ target_phonemes \in PhonemeStrings |->
            score_similarity(user_phonemes, target_phonemes) ] ]

\* analysis['score'] of backend.compare_pronunciation(user_word, target_word):
\* 0 in the error dict of a failed lookup, else the score that
\* calculate_pronunciation_score rounds from the ratio of the two phoneme
\* strings (the other keys are not read by app.py)
analysis_score(user_word, target_word) ==
    IF \/ Falsy(PronunciationAnalyzer_get_phonemes(target_word))
       \/ Falsy(PronunciationAnalyzer_get_phonemes(user_word))
    THEN Rat(0, 1)
    ELSE score_of_similarity(Ratios[PronunciationAnalyzer_get_phonemes(user_word)]
                                   [PronunciationAnalyzer_get_phonemes(target_word)])

\* app.py: the part of either branch from `if user_text:` on; `if analysis:`
\* holds for every dict compare_pronunciation returns, the error dict with
\* its score 0 included
AppAnalyse(S, word, user_text) ==
    IF Falsy(user_text) THEN S
    ELSE RecordAnalysis(S, word, user_text, analysis_score(user_text, word))

\* app.py, tab1: the upload branch runs whenever the uploader holds a file
\* and the word is not empty; the recording branch runs in the run its
\* button triggered.  env.recognition is what the recognition does in this
\* run, env.recording what record_and_transcribe returns.
AppPronunciationTab(S, w, click, env) ==
    IF w.input_method = "Upload Audio File"
    THEN IF w.audio_file # NoFile /\ w.practice_word # <<>>
         THEN AppAnalyse(S, w.practice_word, transcribe_audio(w.audio_file, env.recognition).ret)
         ELSE S
    ELSE IF click = "Start Recording" /\ w.practice_word # <<>>
         THEN AppAnalyse(S, w.practice_word, env.recording)
         ELSE S

\* app_deploy.py: `if analysis and "error" not in analysis:`
DeployRecord(S, word, user_text, analysis) ==
    IF "error" \in DOMAIN analysis THEN S
    ELSE RecordAnalysis(S, word, user_text, analysis.score)

\* app_deploy.py, tab1 (BACKEND_AVAILABLE: the backend_simple modules
\* imported; SPEECH_RECOGNITION_AVAILABLE likewise)
DeployPronunciationTab(S, w, env) ==
    IF w.audio_file # NoFile /\ w.practice_word # <<>>
    THEN LET user_text == simple_transcribe_audio(TRUE, w.audio_file, env.recognition).ret
         IN IF Falsy(user_text) THEN S
            ELSE DeployRecord(S, w.practice_word, user_text,
                              simple_compare_pronunciation(user_text, w.practice_word, FALSE).ret)
    ELSE S

\* app_simple.py: the score of the spoken text against the word
simple_score(user_text, word) ==
    IF Strip(Lower(user_text)) = Strip(Lower(word))
    THEN Rat(100, 1)
    ELSE Rat(100 * Cardinality(Range(Split(Lower(user_text))) \cap Range(Split(Lower(word)))),
             Max(Len(Split(user_text)), Len(Split(word))))

\* app_simple.py, tab1 (SPEECH_RECOGNITION_AVAILABLE): an exception of the
\* recognition is caught after nothing was recorded
SimplePronunciationTab(S, w, env) ==
    IF w.audio_file # NoFile /\ w.practice_word # <<>>
    THEN IF env.recognition[1] = "text"
         THEN RecordAnalysis(S, w.practice_word, env.recognition[2],
                             simple_score(env.recognition[2], w.practice_word))
         ELSE S
    ELSE S

\* ---- app.py, tab2 and the analytics tab
\* the sum of a sequence of rationals
RECURSIVE RatSum(_)
RatSum(xs) == IF xs = <<>> THEN Rat(0, 1) ELSE RatAdd(Head(xs), RatSum(Tail(xs)))

\* np.mean of a non-empty list
Mean(xs) == RatDivInt(RatSum(xs), Len(xs))

\* [e.get(emotion, 0) for e in emotion_history]
Gets(emotion_history, emotion) ==
    [ k \in 1..Len(emotion_history) |-> DictGet(emotion_history[k], emotion, Rat(0, 1)) ]

\* the averages of analyze_emotion_trend and of _analyze_emotion_trend: a
\* dict with every label of emotion_labels, in that order
Averages(emotion_history) ==
    [ i \in 1..Len(emotion_labels) |->
        <<emotion_labels[i], Mean(Gets(emotion_history, emotion_labels[i]))>> ]

\* emotion_history[-3:]
LastThree(h) == SubSeq(h, Max(1, Len(h) - 2), Len(h))

\* emotion_history[:-3] if len(emotion_history) > 3 else emotion_history[:1]
Earlier(h) == IF Len(h) > 3 THEN SubSeq(h, 1, Len(h) - 3) ELSE SubSeq(h, 1, 1)

\* the comparison of the recent averages with the earlier ones
TrendOf(recent_avg, earlier_avg) ==
    IF RatGT(DictGet(recent_avg, "Happy", Rat(0, 1)), DictGet(earlier_avg, "Happy", Rat(0, 1)))
    THEN "Improving - showing more positive emotions"
    ELSE IF RatGT(DictGet(recent_avg, "Sad", Rat(0, 1)), DictGet(earlier_avg, "Sad", Rat(0, 1)))
    THEN "Declining - showing more negative emotions"
    ELSE "Stable - consistent emotional expression"

\* EmotionDetector._analyze_emotion_trend(emotion_history)
EmotionDetector_analyze_emotion_trend(emotion_history) ==
    IF Len(emotion_history) < 2
    THEN "Insufficient data for trend analysis"
    ELSE TrendOf(Averages(LastThree(emotion_history)), Averages(Earlier(emotion_history)))

\* the dict analyze_emotion_trend returns for the averages avg_emotions (its
\* recommendations, fixed texts chosen by the dominant emotion, left out)
TrendRecord(avg_emotions, dominant, emotion_history) ==
    [dominant_emotion |-> dominant[1],
     confidence |-> dominant[2],
     average_emotions |-> avg_emotions,
     trend |-> EmotionDetector_analyze_emotion_trend(emotion_history)]

\* EmotionDetector.analyze_emotion_trend(emotion_history), from the averages on
TrendOfAverages(avg_emotions, emotion_history) ==
    TrendRecord(avg_emotions, get_dominant_emotion(avg_emotions), emotion_history)

\* `if not emotion_history:` and the averages
analyze_emotion_trend(emotion_history) ==
    IF emotion_history = <<>>
    THEN [trend |-> "No data", recommendation |-> "Start recording to analyze emotions"]
    ELSE TrendOfAverages(Averages(emotion_history), emotion_history)

\* backend.emotion_detect.get_emotion_analysis(emotion_history)
get_emotion_analysis(emotion_history) == analyze_emotion_trend(emotion_history)

\* the dict app.py appends to emotion_history
EmotionEntry(emotion_probs, dominant_emotion, confidence) ==
    << <<"emotion_probs", emotion_probs>>,
       <<"dominant_emotion", dominant_emotion>>,
       <<"confidence", confidence>>,
       <<"timestamp", "time.time()">> >>

\* "Update session stats" of tab2
RecordEmotion(S, entry) ==
    [S EXCEPT !.session_stats.total_emotions_detected = @ + 1,
              !.emotion_history = Append(@, entry)]

\* the upload branch of tab2 from `if emotion_probs:` on; the dominant
\* emotion is computed in place, as get_dominant_emotion computes it
RecordDetection(S, emotion_probs) ==
    RecordEmotion(S, EmotionEntry(emotion_probs,
                                  MaxKeyFrom(emotion_probs, 2, 1),
                                  DictItem(emotion_probs, MaxKeyFrom(emotion_probs, 2, 1))))

\* app.py, tab2.  env.detection is what detect_emotion_from_uploaded_image
\* returns in this run, env.emotion what detect_emotion returns.
AppEmotionTab(S, w, click, env) ==
    IF w.emotion_method = "Upload Image"
    THEN IF w.uploaded_image # NoImage /\ env.detection[1] = "probs"
         THEN RecordDetection(S, env.detection[2])
         ELSE S
    ELSE IF w.emotion_method = "Live Detection (Demo)" /\ click = "Detect Emotion (Demo)"
         THEN RecordEmotion(S, EmotionEntry(<< <<env.emotion, Rat(1, 1)>> >>,
                                            env.emotion, Rat(1, 1)))
         ELSE S

\* app.py, the analytics tab: the analysis it shows, computed in every run
\* from the emotion history and kept nowhere
AppAnalytics(S) ==
    IF S.emotion_history # <<>> THEN get_emotion_analysis(S.emotion_history) ELSE None

\* ---- one run of the script
\* the tabs of a run, from the state S the sidebar left
Tabs(script, S, w, click, env) ==
    CASE script = "app.py" ->
           AppEmotionTab(AppPronunciationTab(S, w, click, env), w, click, env)
      [] script = "app_deploy.py" -> DeployPronunciationTab(S, w, env)
      [] script = "app_simple.py" -> SimplePronunciationTab(S, w, env)

\* The run an interaction triggers.  Reset Session is handled in the
\* sidebar: app.py then calls st.rerun(), which starts the script again with
\* no button clicked; app_deploy.py and app_simple.py go on to the tabs in
\* the same run.
RunScript(script, S, w, click, env) ==
    IF click = "Reset Session"
    THEN Tabs(script, ResetSession(S), w, "st.rerun()", env)
    ELSE Tabs(script, S, w, click, env)

\* ---- the widgets and the environment of a session
Scripts == {"app.py", "app_deploy.py", "app_simple.py"}

\* the widgets of a session just opened (app_deploy.py and app_simple.py
\* have no input-method radio: they always show the uploader)
FirstWidgets ==
    [practice_word |-> <<>>,
     input_method |-> "Upload Audio File",
     audio_file |-> NoFile,
     emotion_method |-> "Upload Image",
     uploaded_image |-> NoImage]

\* the options of the emotion-method radio
EmotionMethods(script) ==
    IF script = "app.py"
    THEN {"Upload Image", "Live Detection (Demo)", "Teachable Machine"}
    ELSE {"Upload Image", "Demo Mode"}

\* the words a learner types: one the dictionary has, one it lacks
SessionWords == { <<"h", "a">>, <<"z">> }

\* the images a learner uploads: one with a face, one without
SessionImages == {"face.jpg", "landscape.jpg"}

\* record_and_transcribe(duration): the text recognised, or None
Recordings == { <<"h", "a">>, <<"h", "u">>, None }

\* detect_emotion_from_uploaded_image(uploaded_image): normalised
\* probabilities of the seven labels when a face is found, else None
Detections(uploaded_image) ==
    IF uploaded_image = "face.jpg"
    THEN { <<"probs", << <<"Angry", Rat(1, 20)>>, <<"Disgust", Rat(1, 20)>>,
                         <<"Fear", Rat(1, 20)>>, <<"Happy", Rat(3, 5)>>,
                         <<"Sad", Rat(1, 10)>>, <<"Surprise", Rat(1, 20)>>,
                         <<"Neutral", Rat(1, 10)>> >> >> }
    ELSE { <<"none">> }

\* detect_emotion(): a label chosen at random
DemoEmotions == {"Sad"}

\* How far a session is followed, and with what: at most `words` entries
\* of pronunciation_history and `emotions` of emotion_history, the learner
\* typing the words `typed` and uploading the files `files` and the images
\* `images`; `steady` when the recognition service answers every time.
MaxHistory == 2
MaxEmotions == 1
AnySession ==
    [words |-> MaxHistory, emotions |-> MaxEmotions, steady |-> FALSE,
     typed |-> SessionWords \cup { <<>> },
     files |-> { f \in AudioFiles : f.format = "wav" /\ f.speech # <<>> } \cup { NoFile },
     images |-> SessionImages \cup { NoImage }]

\* what the services do in one run of the script
Envs(w, click, mode) ==
    [recognition : IF w.audio_file = NoFile THEN { <<"none">> }
                   ELSE IF mode.steady
                   THEN { r \in Recognitions(w.audio_file) : r[1] = "text" }
                   ELSE Recognitions(w.audio_file),
     recording : IF click = "Start Recording" THEN Recordings ELSE { None },
     detection : IF w.uploaded_image = NoImage THEN { <<"none">> }
                 ELSE Detections(w.uploaded_image),
     emotion : IF click = "Detect Emotion (Demo)" THEN DemoEmotions ELSE { "none" }]

\* a session of one of the apps, just opened: the script has run once
InitSession ==
    /\ PRONOUNCING_AVAILABLE = TRUE
    /\ cmudict_ok = TRUE
    /\ op = "init"
    /\ args = [user |-> <<>>, target |-> <<>>]
    /\ result = None
    /\ similarity = None
    /\ calls = <<>>
    /\ temp_dir = "tmp"
    /\ tmp_files = {}
    /\ call = [t \in Threads |-> None]
    /\ ThreadsIdle
    /\ app \in Scripts
    /\ widgets = FirstWidgets
    /\ session_state = NewSession

\* the run of the script has ended with st.session_state = S
Ran(name, w, S, mode) ==
    /\ Len(S.pronunciation_history) <= mode.words
    /\ Len(S.emotion_history) <= mode.emotions
    /\ op' = name
    /\ widgets' = w
    /\ session_state' = S
    /\ UNCHANGED <<PRONOUNCING_AVAILABLE, cmudict_ok, args, result, similarity, calls,
                   tmp_files, app>>
    /\ UNCHANGED sharedVars

\* the interaction `name` leaves the widgets as w, with the button `click`
\* pressed if it is a click, and the script runs
Interaction(name, w, click, mode) ==
    /\ app \in Scripts
    /\ \E env \in Envs(w, click, mode) :
         \E S \in { RunScript(app, session_state, w, click, env) } : Ran(name, w, S, mode)

\* the learner types a word into st.text_input
TypeWord(mode) ==
    \E word \in mode.typed \ { widgets.practice_word } :
        Interaction("practice_word", [widgets EXCEPT !.practice_word = word], "none", mode)

\* the learner puts a file into the audio uploader, or takes it out
UploadAudio(mode) ==
    /\ widgets.input_method = "Upload Audio File"
    /\ \E f \in mode.files \ { widgets.audio_file } :
         Interaction("audio_file", [widgets EXCEPT !.audio_file = f], "none", mode)

\* app.py: the learner switches the input-method radio; the uploader is
\* shown in the upload branch only, and a widget that is not shown in a
\* run loses its value
ChooseInputMethod(mode) ==
    /\ app = "app.py"
    /\ \E m \in {"Upload Audio File", "Record Live Audio"} \ { widgets.input_method } :
         Interaction("input_method",
                     [widgets EXCEPT !.input_method = m, !.audio_file = NoFile], "none", mode)

\* app.py: the learner clicks Start Recording
ClickStartRecording(mode) ==
    /\ app = "app.py"
    /\ widgets.input_method = "Record Live Audio"
    /\ Interaction("Start Recording", widgets, "Start Recording", mode)

\* the learner clicks Reset Session
ClickResetSession(mode) ==
    /\ app \in Scripts
    /\ Interaction("Reset Session", widgets, "Reset Session", mode)

\* app.py: the learner clicks Play Sample Word
ClickPlaySampleWord(mode) ==
    /\ app = "app.py"
    /\ Interaction("Play Sample Word", widgets, "Play Sample Word", mode)

\* the learner switches the emotion-method radio; the image uploader is
\* shown under "Upload Image" only
ChooseEmotionMethod(mode) ==
    \E m \in EmotionMethods(app) \ { widgets.emotion_method } :
        Interaction("emotion_method",
                    [widgets EXCEPT !.emotion_method = m, !.uploaded_image = NoImage],
                    "none", mode)

\* app.py: the learner puts an image into the image uploader, or takes it out
UploadImage(mode) ==
    /\ app = "app.py"
    /\ widgets.emotion_method = "Upload Image"
    /\ \E image \in mode.images \ { widgets.uploaded_image } :
         Interaction("uploaded_image", [widgets EXCEPT !.uploaded_image = image], "none", mode)

\* app.py: the learner clicks Detect Emotion (Demo)
ClickDetectEmotion(mode) ==
    /\ app = "app.py"
    /\ widgets.emotion_method = "Live Detection (Demo)"
    /\ Interaction("Detect Emotion (Demo)", widgets, "Detect Emotion (Demo)", mode)

NextSession ==
    \/ TypeWord(AnySession)
    \/ UploadAudio(AnySession)
    \/ ChooseInputMethod(AnySession)
    \/ ClickStartRecording(AnySession)
    \/ ClickResetSession(AnySession)
    \/ ClickPlaySampleWord(AnySession)
    \/ ChooseEmotionMethod(AnySession)
    \/ UploadImage(AnySession)
    \/ ClickDetectEmotion(AnySession)

SpecSession == InitSession /\ [][NextSession]_vars


\* ---- a long session of app.py
\* config.SESSION_SETTINGS['max_history_items']
max_history_items == 100

\* A learner who practises one word with one recording and one image, the
\* services answering every time, followed until a history holds one entry
\* more than max_history_items.
LongSession ==
    [words |-> max_history_items + 1, emotions |-> max_history_items + 1, steady |-> TRUE,
     typed |-> { <<"h", "a">> },
     files |-> { f \in AudioFiles : f.format = "wav" /\ f.speech = <<"h", "a">> },
     images |-> { "face.jpg" }]

InitLong == InitSession /\ app = "app.py"

NextLong ==
    \/ TypeWord(LongSession)
    \/ UploadAudio(LongSession)
    \/ UploadImage(LongSession)
    \/ ClickPlaySampleWord(LongSession)

SpecLong == InitLong /\ [][NextLong]_vars

\* ------------------------------------------------------------ properties
\* the states after a scoring call of backend.phoneme_check on two non-empty strings
Scored == op = "calculate_pronunciation_score" /\ args.user # <<>> /\ args.target # <<>>

\* the states after a backend_simple comparison that returned an analysis
SimpleScored == op = "simple.compare_pronunciation" /\ "error" \notin DOMAIN result

\* C1: scoring a non-empty phoneme string against itself yields score 100
\* and the "Excellent" feedback, in backend and in backend_simple.
C1_IdenticalScores100 ==
    /\ (Scored /\ args.user = args.target)
         => result = << <<100, 1>>, "Excellent pronunciation!" >>
    /\ (SimpleScored /\ result.user_phonemes = result.target_phonemes)
         => (result.score = <<100, 1>> /\ result.feedback = "Excellent pronunciation!")

C1_Witness ==
    /\ Scored
    /\ args.user = args.target
    /\ Len(Split(args.user)) = 2
    /\ result[1] = <<100, 1>>

\* C2: two different non-empty phoneme strings score strictly below 100, in
\* backend and in backend_simple.
C2_DifferentScoresBelow100 ==
    /\ (Scored /\ args.user # args.target) => RatLT(result[1], 100)
    /\ (SimpleScored /\ result.user_phonemes # result.target_phonemes)
         => RatLT(result.score, 100)

\* C3: every score returned lies within [0, 100], whatever the lengths of
\* the inputs.
C3_ScoreWithinRange ==
    /\ op = "calculate_pronunciation_score"
         => (RatGE(result[1], 0) /\ RatLE(result[1], 100))
    /\ op = "analyze_pronunciation"
         => (RatGE(result.score, 0) /\ RatLE(result.score, 100))
    /\ SimpleScored
         => (RatGE(result.score, 0) /\ RatLE(result.score, 100))

C3_Witness ==
    /\ Scored
    /\ Len(Split(args.user)) = 1
    /\ Len(Split(args.target)) = MaxLen
    /\ RatGE(result[1], 1)
    /\ RatLT(result[1], 100)

\* C4: swapping the two arguments of the scoring operation preserves the
\* similarity ratio.
C4_RatioSymmetric ==
    /\ Scored => similarity = score_similarity(args.target, args.user)
    /\ (SimpleScored /\ similarity # None)
         => similarity = simple_similarity(result.target_phonemes, result.user_phonemes)

\* the ratio 2*M/T over the token sequences of two phoneme strings
TokenRatio(user_phonemes, target_phonemes) ==
    LET a == Split(user_phonemes)
        b == Split(target_phonemes)
    IN Rat(2 * Matches(a, b), Len(a) + Len(b))

\* C5: the similarity ratio is 2*M/T, M the number of matching tokens of the
\* greedy longest-matching-block alignment of the two token sequences and T
\* the sum of the two token counts.
C5_RatioOverTokens ==
    /\ Scored => similarity = TokenRatio(args.user, args.target)
    /\ (SimpleScored /\ similarity # None)
         => similarity = TokenRatio(result.user_phonemes, result.target_phonemes)

\* C6: when no token of one sequence equals a token of the other, the ratio
\* and the score are 0.
C6_NoCommonTokenScoresZero ==
    (Scored /\ Range(Split(args.user)) \cap Range(Split(args.target)) = {})
        => (similarity = <<0, 1>> /\ result[1] = <<0, 1>>)

LookupFailed ==
    IF op = "analyze_pronunciation"
    THEN \/ Falsy(PronunciationAnalyzer_get_phonemes(args.user))
         \/ Falsy(PronunciationAnalyzer_get_phonemes(args.target))
    ELSE \/ Falsy(simple_get_phonemes(args.user))
         \/ Falsy(simple_get_phonemes(args.target))

\* C8: the result of an analysis carries an error if and only if a lookup
\* failed; it then has score 0 and no tips, in backend and in backend_simple.
C8_ErrorIffLookupFailed ==
    op \in {"analyze_pronunciation", "simple.compare_pronunciation"}
        => /\ ("error" \in DOMAIN result) <=> LookupFailed
           /\ LookupFailed
                => /\ "score" \in DOMAIN result
                   /\ result.score = <<0, 1>>
                   /\ "tips" \notin DOMAIN result

\* the steps that score or generate tips
ScoringSteps == {"calculate_pronunciation_score", "get_pronunciation_tips", "simple_comparison"}

\* C9: in analyze_pronunciation, compare_pronunciation and
\* get_pronunciation_tips no scoring or tip-generation step is made after a
\* lookup returned not-found.
C9_NoScoringAfterFailedLookup ==
    op \in {"analyze_pronunciation", "get_pronunciation_tips", "simple.compare_pronunciation"}
        => \A i \in 1..Len(calls) : \A j \in 1..Len(calls) :
             (i < j /\ calls[i][1] = "get_phonemes" /\ calls[i][3] = None)
                 => calls[j][1] \notin ScoringSteps

C9_Witness ==
    /\ op = "analyze_pronunciation"
    /\ Len(calls) = 2
    /\ calls[1][3] = None
    /\ calls[2][3] # None
    /\ "error" \in DOMAIN result

\* the five-step ladder: the label of a score
LadderHolds(score, feedback) ==
    /\ RatGE(score, 90) => feedback = "Excellent pronunciation!"
    /\ (RatLT(score, 90) /\ RatGE(score, 80)) => feedback = "Good pronunciation!"
    /\ (RatLT(score, 80) /\ RatGE(score, 70)) => feedback = "Fair pronunciation, keep practicing!"
    /\ (RatLT(score, 70) /\ RatGE(score, 50)) => feedback = "Needs improvement. Try again!"
    /\ RatLT(score, 50) => feedback = "Significant improvement needed. Practice more!"

\* C10 as stated: the feedback of backend.phoneme_check is the five-step
\* ladder over the score, for every score it returns.
C10_FeedbackIsLadder ==
    op = "calculate_pronunciation_score" => LadderHolds(result[1], result[2])

\* C10 as amended: when both phoneme strings are non-empty the feedback is
\* the five-step ladder over the score; with an empty string the score is 0
\* and the feedback is "Could not analyze pronunciation".
C10_LadderOnNonEmptyInputs ==
    /\ Scored => LadderHolds(result[1], result[2])
    /\ (op = "analyze_pronunciation" /\ "error" \notin DOMAIN result)
         => LadderHolds(result.score, result.feedback)
    /\ (op = "calculate_pronunciation_score" /\ ~ Scored)
         => result = << <<0, 1>>, "Could not analyze pronunciation" >>

C10_Witness ==
    /\ Scored
    /\ result = << <<50, 1>>, "Needs improvement. Try again!" >>

\* C11: the feedback of backend_simple.compare_pronunciation is the same
\* five-step ladder over the score: below 50 "Significant improvement
\* needed", in [50, 70) "Needs improvement".
C11_SimpleFeedbackIsLadder ==
    SimpleScored => LadderHolds(result.score, result.feedback)

\* the states after a tip generation of backend.phoneme_check on two non-empty strings
Tipped ==
    /\ op = "PronunciationAnalyzer.get_pronunciation_tips"
    /\ args.user # <<>> /\ args.target # <<>>

\* the edit operations of one non-matching block: the tokens target[i1+1..i2]
\* against spoken[j1+1..j2], min(a, b) Replace, then Delete, then Insert
BlockOps(target, spoken, c) ==
    LET a == c[3] - c[2]
        b == c[5] - c[4]
    IN [ k \in 1..Max(a, b) |->
           IF k <= Min(a, b) THEN <<"Replace", target[c[2] + k], spoken[c[4] + k]>>
           ELSE IF k <= a THEN <<"Delete", target[c[2] + k]>>
           ELSE <<"Insert", spoken[c[4] + k]>> ]

\* the non-Equal edit operations along the opcodes, blocks in sequence order
RECURSIVE OpsOfCodes(_, _, _)
OpsOfCodes(codes, target, spoken) ==
    IF codes = <<>> THEN <<>>
    ELSE (IF codes[1][1] = "equal" THEN <<>> ELSE BlockOps(target, spoken, codes[1]))
         \o OpsOfCodes(Tail(codes), target, spoken)

\* the non-Equal edit operations that turn the target tokens into the spoken ones
EditOps(target_phonemes, user_phonemes) ==
    OpsOfCodes(get_opcodes(Split(target_phonemes), Split(user_phonemes)),
               Split(target_phonemes), Split(user_phonemes))

\* a list of tips is one tip per operation: a Delete as the tip naming the
\* target token, an Insert as the tip naming the spoken token
OneTipPerOp(tips, ops) ==
    /\ Len(tips) = Len(ops)
    /\ \A k \in 1..Min(Len(tips), Len(ops)) :
         /\ ops[k][1] = "Delete" => tips[k] = <<"Missing", ops[k][2]>>
         /\ ops[k][1] = "Insert" => tips[k] = <<"Extra", ops[k][2]>>

\* C12: tip generation emits exactly one tip per non-Equal edit operation
\* between target and spoken (one for a substituted token, one naming a
\* missing target token, one naming an extra spoken token) and no other tip.
C12_OneTipPerEditOp ==
    (Tipped /\ Split(args.user) # Split(args.target))
        => OneTipPerOp(result, EditOps(args.target, args.user))

\* C13: when target and spoken have no differing token, tip generation emits
\* exactly one tip, the affirmative "great match!".
C13_IdenticalGivesGreatMatch ==
    (Tipped /\ Split(args.user) = Split(args.target))
        => result = << <<"great match!">> >>

\* the difference entries among the tips, in the order emitted
RECURSIVE EntriesOf(_)
EntriesOf(tips) ==
    IF tips = <<>> THEN <<>>
    ELSE (IF tips[1][1] \in {"Missing", "Extra"} THEN <<tips[1]>> ELSE <<>>)
         \o EntriesOf(Tail(tips))

\* the entries the edit operations stand for: a Replace as the entry of its
\* target token followed by the entry of its spoken token
RECURSIVE EntriesOfOps(_)
EntriesOfOps(ops) ==
    IF ops = <<>> THEN <<>>
    ELSE (IF ops[1][1] = "Replace" THEN << <<"Missing", ops[1][2]>>, <<"Extra", ops[1][3]>> >>
          ELSE IF ops[1][1] = "Delete" THEN << <<"Missing", ops[1][2]>> >>
          ELSE << <<"Extra", ops[1][2]>> >>)
         \o EntriesOfOps(Tail(ops))

\* C14: within each non-matching block of target-side length a and
\* spoken-side length b the difference entries come as min(a, b) Replace
\* entries pairing the tokens positionally, then the Delete entries of the
\* leftover target tokens, then the Insert entries of the leftover spoken
\* tokens; the blocks come in sequence order.
C14_ReplaceThenDeleteThenInsert ==
    Tipped => EntriesOf(result) = EntriesOfOps(EditOps(args.target, args.user))

\* the states after a call of op on a non-empty target and an empty spoken string
EmptySpoken(name) == op = name /\ args.user = <<>> /\ args.target # <<>>

Normalized(w) == Lower(Strip(w))

\* C16: a lookup normalizes its input before the query: get_phonemes(w)
\* equals get_phonemes(lowercase(trim(w))), so two words that differ in case
\* or surrounding blanks only have the same result, in backend and in
\* backend_simple.
C16_LookupNormalizes ==
    /\ op = "get_phonemes"
         => /\ result = PronunciationAnalyzer_get_phonemes(Normalized(args.user))
            /\ \A w \in Words :
                 Normalized(w) = Normalized(args.user)
                     => PronunciationAnalyzer_get_phonemes(w) = result
    /\ op = "simple.get_phonemes"
         => /\ result = simple_get_phonemes(Normalized(args.user))
            /\ \A w \in Words :
                 Normalized(w) = Normalized(args.user) => simple_get_phonemes(w) = result

C16_Witness ==
    /\ op = "get_phonemes"
    /\ args.user = <<" ", "a", "h">>
    /\ result = PronunciationAnalyzer_get_phonemes(<<"A", "h">>)
    /\ result # None

\* the variants the dictionary lists for the word of the last lookup
Variants == phones_for_word(Strip(Lower(args.user)))

\* C17: on a dictionary miss, without the dictionary, or when the query
\* raises, get_phonemes returns None as a normal return and no exception
\* leaves it; on a hit it returns the first listed variant.
C17_LookupNeverRaises ==
    /\ op = "get_phonemes"
         => /\ result # Raised
            /\ result = IF cmudict_ok /\ Variants # <<>> THEN Variants[1] ELSE None
    /\ op = "simple.get_phonemes"
         => /\ result # Raised
            /\ result = IF PRONOUNCING_AVAILABLE /\ cmudict_ok /\ Variants # <<>>
                        THEN Variants[1] ELSE None

C17_Witness ==
    /\ op = "simple.get_phonemes"
    /\ PRONOUNCING_AVAILABLE
    /\ ~ cmudict_ok
    /\ Len(Variants) = 2
    /\ result = None

\* C18: when a lookup fails, the error message names the word whose lookup
\* failed and never a word whose lookup succeeded; the target word is
\* checked first, so that the message names it when both lookups fail.
C18_ErrorNamesFailedWord ==
    (/\ op \in {"analyze_pronunciation", "simple.compare_pronunciation"}
     /\ "error" \in DOMAIN result
     /\ Len(calls) = 2)
        => /\ \E i \in 1..2 : calls[i][2] = result.error[2] /\ calls[i][3] = None
           /\ \A i \in 1..2 : calls[i][2] = result.error[2] => calls[i][3] = None
           /\ result.error = IF calls[2][3] = None
                             THEN <<"Could not find phonemes for target word", args.target>>
                             ELSE <<"Could not find phonemes for user word", args.user>>

C18_Witness ==
    /\ op = "analyze_pronunciation"
    /\ Len(calls) = 2
    /\ calls[1][3] = None /\ calls[2][3] = None
    /\ args.user # args.target
    /\ result.error = <<"Could not find phonemes for target word", args.target>>

\* what the call c returns when it runs alone
AloneResult(c) ==
    IF c.name = "analyze_pronunciation"
    THEN analyze_pronunciation(c.user, c.target).ret
    ELSE get_pronunciation_tips(c.user, c.target).ret

\* C19: analysis is deterministic: a run of a call on the inputs of an
\* earlier run returns the identical complete result (score, feedback, tips,
\* is_correct), whatever calls were made in between, and two threads making
\* the same call get identical results.
C19_RepeatedRunsAgree ==
    /\ \A t \in Threads :
         previous[t] # <<>> => returned[t] = previous[t]
    /\ \A t \in Threads : \A u \in Threads :
         (call[t] = call[u] /\ returned[t] # <<>> /\ returned[u] # <<>>)
             => returned[t] = returned[u]

C19_Witness ==
    /\ previous[1] # <<>>
    /\ returned[1] = previous[1]
    /\ call[1].name = "analyze_pronunciation"
    /\ "tips" \in DOMAIN returned[1][1]
    /\ Len(returned[1][1].tips) > 1
    /\ returned[2] # <<>>
    /\ call[2] # call[1]

\* C20: calls made concurrently through the shared pronunciation_analyzer
\* need no coordination: under every interleaving a call returns what it
\* returns when it runs alone.
C20_InterleavedAsAlone ==
    \A t \in Threads :
        /\ returned[t] # <<>> => returned[t] = <<AloneResult(call[t])>>
        /\ pc[t] = "return" => ReturnValue(t) = AloneResult(call[t])

C20_Witness ==
    /\ pc[1] = "return"
    /\ pc[2] = "return"
    /\ call[1] # call[2]
    /\ call[1].name = "analyze_pronunciation"
    /\ frame[1].user_phonemes # frame[2].user_phonemes
    /\ ReturnValue(1) = AloneResult(call[1])

\* C21: get_dominant_emotion returns ("Unknown", 0.0) for an empty dict;
\* otherwise it returns a key whose probability no other key exceeds, with
\* that probability, and among equally maximal keys the first inserted.
C21_DominantIsFirstMaximum ==
    op = "get_dominant_emotion"
        => LET d == args.emotion_probs
           IN IF d = <<>>
              THEN result = <<"Unknown", Rat(0, 1)>>
              ELSE \E i \in 1..Len(d) :
                     /\ result = <<d[i][1], d[i][2]>>
                     /\ \A j \in 1..Len(d) : ~ RatGT(d[j][2], d[i][2])
                     /\ \A j \in 1..(i - 1) : RatGT(d[i][2], d[j][2])

\* a dict whose maximum is shared by two keys, the first of them not in front
C21_Witness ==
    /\ op = "get_dominant_emotion"
    /\ args.emotion_probs = << <<"Sad", Rat(1, 10)>>, <<"Happy", Rat(4, 5)>>, <<"Neutral", Rat(4, 5)>> >>
    /\ result = <<"Happy", Rat(4, 5)>>

\* the labels of the Excellent and of the Good bucket
CorrectLabels == {"Excellent pronunciation!", "Good pronunciation!"}

\* the call returned an analysis, not an error or a playback flag
Analysed ==
    /\ op \in {"analyze_pronunciation", "simple.compare_pronunciation"}
    /\ "is_correct" \in DOMAIN result

\* C29: in every successful analysis result of either backend, is_correct
\* is true exactly when the feedback is the Excellent or the Good label.
C29_CorrectIffExcellentOrGood ==
    Analysed => (result.is_correct <=> result.feedback \in CorrectLabels)

\* an analysis of the backend in the Good bucket: a score from 80 up to 90
C29_Witness ==
    /\ op = "analyze_pronunciation"
    /\ "is_correct" \in DOMAIN result
    /\ result.is_correct
    /\ result.feedback = "Good pronunciation!"
    /\ RatLT(result.score, 90)

\* the calls that create a temporary file
FileCalls ==
    {"transcribe_audio", "get_audio_duration", "simple.transcribe_audio",
     "play_correct_pronunciation"}

\* C28: after transcribe_audio_file / transcribe_audio, get_audio_duration
\* or play_correct_pronunciation returns, on the success path and on every
\* failure path, the temporary file the call created no longer exists.
C28_TempFilesCleanedUp ==
    op \in FileCalls => tmp_files = {}

\* analysis_score is the 'score' of the dict analyze_pronunciation returns
AnalysisScoreAgrees ==
    op = "analyze_pronunciation" => result.score = analysis_score(args.user, args.target)

\* ---- the sessions
\* the pronunciation part of st.session_state
Practised(S) ==
    <<S.pronunciation_history, S.session_stats.total_words_practiced,
      S.session_stats.average_pronunciation_score>>

\* the scores stored in pronunciation_history
Scores(S) == [ k \in 1..Len(S.pronunciation_history) |-> S.pronunciation_history[k].score ]

\* C22: in app.py, in every state reachable by upload analyses,
\* live-recording analyses and Reset Session clicks, total_words_practiced
\* equals the length of pronunciation_history.
C22_CountIsHistoryLength ==
    app = "app.py"
        => session_state.session_stats.total_words_practiced
             = Len(session_state.pronunciation_history)

\* two analyses recorded, the later one from a live recording
C22_Witness ==
    /\ app = "app.py"
    /\ op = "Start Recording"
    /\ Len(session_state.pronunciation_history) = 2
    /\ session_state.session_stats.total_words_practiced = 2

\* C23: after any sequence of recorded analyses and resets, in each of the
\* three apps, average_pronunciation_score is the arithmetic mean of the
\* scores stored in pronunciation_history, and 0 when the history is empty.
C23_AverageIsMean ==
    app \in Scripts
        => session_state.session_stats.average_pronunciation_score
             = IF session_state.pronunciation_history = <<>>
               THEN Rat(0, 1)
               ELSE Mean(Scores(session_state))

\* two analyses with different scores recorded, the average between them
C23_Witness ==
    /\ app \in Scripts
    /\ Len(session_state.pronunciation_history) = 2
    /\ RatGT(session_state.pronunciation_history[1].score,
             session_state.pronunciation_history[2].score)
    /\ RatGT(session_state.session_stats.average_pronunciation_score,
             session_state.pronunciation_history[2].score)
    /\ RatGT(session_state.pronunciation_history[1].score,
             session_state.session_stats.average_pronunciation_score)

\* the uploader holds a file and the word is not empty
UploadFilled(w) ==
    /\ w.input_method = "Upload Audio File"
    /\ w.audio_file # NoFile
    /\ w.practice_word # <<>>

\* the interactions that touch neither the word nor the audio widgets
Unrelated ==
    {"Play Sample Word", "emotion_method", "uploaded_image", "Detect Emotion (Demo)",
     "Reset Session"}

\* a run triggered by an unrelated interaction while the same audio file
\* and word stay in the widgets
UnrelatedRerun ==
    /\ app \in Scripts
    /\ UploadFilled(widgets)
    /\ widgets'.audio_file = widgets.audio_file
    /\ widgets'.practice_word = widgets.practice_word
    /\ widgets'.input_method = widgets.input_method
    /\ op' \in Unrelated

\* C24: while the same audio file and word stay in the widgets, a rerun
\* triggered by an unrelated interaction appends no entry to
\* pronunciation_history and does not increment total_words_practiced (a
\* Reset Session leaves the history empty and the count 0).
C24_UploadRecordedOnce ==
    [][ UnrelatedRerun
          => IF op' = "Reset Session"
             THEN /\ session_state'.pronunciation_history = <<>>
                  /\ session_state'.session_stats.total_words_practiced = 0
             ELSE /\ session_state'.pronunciation_history = session_state.pronunciation_history
                  /\ session_state'.session_stats.total_words_practiced
                       = session_state.session_stats.total_words_practiced ]_vars

\* C25: after a click on Reset Session, once the run (and in app.py the
\* rerun) has completed, pronunciation_history is empty, the count is 0 and
\* the average is 0, whatever the input widgets hold (app.py, app_deploy.py).
C25_ResetLeavesEmptySession ==
    (app \in {"app.py", "app_deploy.py"} /\ op = "Reset Session")
        => Practised(session_state) = Practised(NewSession)

\* the word in the widgets is one the dictionary lacks: every comparison
\* with it carries an error
ErrorWord(w) ==
    /\ w.practice_word # <<>>
    /\ Falsy(PronunciationAnalyzer_get_phonemes(w.practice_word))

\* C26: in app.py a comparison whose result carries an error leaves
\* total_words_practiced, average_pronunciation_score and
\* pronunciation_history unchanged.
C26_ErrorNotCounted ==
    [][ (app = "app.py" /\ op' # "Reset Session" /\ ErrorWord(widgets'))
          => Practised(session_state') = Practised(session_state) ]_vars

\* the average probability of `emotion` over the detections recorded in h
RecordedAverage(h, emotion) ==
    Mean([ k \in 1..Len(h) |-> DictGet(DictItem(h[k], "emotion_probs"), emotion, Rat(0, 1)) ])

\* the analysis names the label of the highest average, with that average
NamesHighestAverage(a, h) ==
    /\ \A i \in 1..Len(emotion_labels) :
         ~ RatGT(RecordedAverage(h, emotion_labels[i]), RecordedAverage(h, a.dominant_emotion))
    /\ a.confidence = RecordedAverage(h, a.dominant_emotion)

\* C27: the analytics tab's dominant emotion, computed by
\* get_emotion_analysis over emotion_history as app.py appends to it, is the
\* label with the highest average probability across the recorded
\* detections, and its confidence is that average.
C27_AnalyticsDominantIsHighestAverage ==
    (app = "app.py" /\ session_state.emotion_history # <<>>)
        => NamesHighestAverage(AppAnalytics(session_state), session_state.emotion_history)

\* C30: the session histories are bounded by max_history_items: in every
\* reachable state pronunciation_history and emotion_history each hold at
\* most 100 entries.
C30_HistoriesBounded ==
    app = "app.py"
        => /\ Len(session_state.pronunciation_history) <= max_history_items
           /\ Len(session_state.emotion_history) <= max_history_items

====
